---- MODULE Spec2Model ----
(***************************************************************************)
(* Sales-history reconstruction of KeepaProduct                             *)
(* (src/services/keepa_service.py) and the flows of the sales-estimator     *)
(* tab that drive it (src/ui/sales_estimator.py).                           *)
(*                                                                          *)
(* Representation                                                           *)
(*   - a pandas Timestamp is its number of minutes since 1970-01-01 (all    *)
(*     timestamps of the program are whole minutes); a calendar date is     *)
(*     its number of days since 1970-01-01;                                 *)
(*   - a DataFrame is a sequence of rows in index order; a row is a         *)
(*     function from column names (and "t", the index) to cells;            *)
(*   - a cell is an integer, NaN being one reserved integer, so that        *)
(*     `cell = 0', `cell # 0' and `cell = -1' read as they do in pandas;    *)
(*   - money is kept in cents (100 x the program's value), "final price"    *)
(*     in 1/PriceScale of a cent, "monthlySoldMax" in tenths of a unit,     *)
(*     "sales min" in 1/MinPerMonth and "sales max" in 1/(10*MinPerMonth)   *)
(*     of a unit, so that every float of the program is an exact integer    *)
(*     here (binary rounding of floats is not modelled);                    *)
(*   - a calendar day has MinPerDay rows of the per-minute grid.            *)
(***************************************************************************)
EXTENDS Integers, Sequences, FiniteSets, TLC

\* ---------------------------------------------------------------- bounds
MinPerDay == 2          \* minutes in a day of the grid (60 * 24 in the program)
NumDays   == 2          \* days over which the provider's events are spread
MaxEvents == 2          \* events held by one product record
MaxWindow == 2          \* largest window (days) asked for

\* ------------------------------------------------------------- constants
NaN         == -999999999                 \* np.nan
Unset       == -888888888                 \* attribute never assigned
KeepaOffset == 21564000                   \* minutes between 1970 and keepa's epoch
DaysPerMonth == 30
PriceScale  == 10000                      \* "final price" = cents * PriceScale

MinPerMonth == MinPerDay * DaysPerMonth   \* 60 * 24 * 30 in the program

\* --------------------------------------------------------------- helpers
Min(S) == CHOOSE x \in S : \A y \in S : x <= y
Max(S) == CHOOSE x \in S : \A y \in S : x >= y

RECURSIVE SortedSeq(_)
SortedSeq(S) == IF S = {} THEN <<>> ELSE <<Min(S)>> \o SortedSeq(S \ {Min(S)})

RECURSIVE SumSeq(_)
SumSeq(s) == IF s = <<>> THEN 0 ELSE Head(s) + SumSeq(Tail(s))

\* python slice seq[start::step] (start is 0-based)
Stride(seq, start, step) ==
    [i \in 1..((Len(seq) - start + step - 1) \div step) |-> seq[start + 1 + (i - 1) * step]]

\* round(x, 2) of the quotient num/den (den > 0), to the nearest, ties to even
RoundDiv(num, den) ==
    LET q == num \div den
        r == num % den
    IN  IF 2 * r < den THEN q
        ELSE IF 2 * r > den THEN q + 1
        ELSE IF q % 2 = 0 THEN q ELSE q + 1

\* int(x) of the quotient num/den (den > 0): truncation towards zero
TruncDiv(num, den) == IF num >= 0 THEN num \div den ELSE -((-num) \div den)

\* ------------------------------------------------------------ DataFrames
IndexSet(df) == {df[i]["t"] : i \in 1..Len(df)}

\* the cells of `row' for the columns `cols', NaN where the frame has no row
Cells(df, cols, t) ==
    LET is == {i \in 1..Len(df) : df[i]["t"] = t}
    IN  IF is = {} THEN [c \in cols |-> NaN]
        ELSE LET row == df[CHOOSE i \in is : TRUE] IN [c \in cols |-> row[c]]

\* pd.merge(left, right, how="outer", left_index=True, right_index=True):
\* one row per index value of either frame, in index order
merge_outer(left, lcols, right, rcols) ==
    LET ts == SortedSeq(IndexSet(left) \cup IndexSet(right))
    IN  [i \in 1..Len(ts) |->
            ("t" :> ts[i]) @@ Cells(left, lcols, ts[i]) @@ Cells(right, rcols, ts[i])]

\* the merge of the grid done as an outer join
merge_left_all(left, lcols, right, rcols) == merge_outer(left, lcols, right, rcols)

\* pd.merge(left, right, how="left", left_index=True, right_index=True):
\* the rows of `left', in its order
merge_left(left, lcols, right, rcols) ==
    [i \in 1..Len(left) |->
        ("t" :> left[i]["t"]) @@ [c \in lcols |-> left[i][c]]
                              @@ Cells(right, rcols, left[i]["t"])]

\* DataFrame.ffill(): each NaN cell takes the last non-NaN cell above it
ffill(df, cols) ==
    [i \in 1..Len(df) |->
        ("t" :> df[i]["t"]) @@
        [c \in cols |->
            LET js == {j \in 1..i : df[j][c] # NaN}
            IN  IF js = {} THEN NaN ELSE df[Max(js)][c]]]

\* DataFrame.fillna(v)
fillna(df, cols, v) ==
    [i \in 1..Len(df) |->
        ("t" :> df[i]["t"]) @@ [c \in cols |-> IF df[i][c] = NaN THEN v ELSE df[i][c]]]

\* DataFrame.replace(a, b)
replace(df, cols, a, b) ==
    [i \in 1..Len(df) |->
        ("t" :> df[i]["t"]) @@ [c \in cols |-> IF df[i][c] = a THEN b ELSE df[i][c]]]

\* DataFrame.rename(columns={"value": name}) of a one-column frame
rename(df, name) ==
    [i \in 1..Len(df) |-> ("t" :> df[i]["t"]) @@ (name :> df[i]["value"])]

\* pd.date_range(start, end, freq="min")
date_range(start, end) ==
    IF end < start THEN <<>>
    ELSE [i \in 1..(end - start + 1) |-> ("t" :> start + (i - 1))]

\* Timestamp.date()
DateOf(t) == t \div MinPerDay

\* ------------------------------------------------------------ KeepaProduct
sales_tiers ==
    (-1 :> 0) @@
    (0 :> 50) @@
    (50 :> 100) @@
    (100 :> 200) @@
    (200 :> 300) @@
    (300 :> 400) @@
    (400 :> 500) @@
    (500 :> 600) @@
    (600 :> 700) @@
    (700 :> 800) @@
    (800 :> 900) @@
    (900 :> 1000) @@
    (1000 :> 2000) @@
    (2000 :> 3000) @@
    (3000 :> 4000) @@
    (4000 :> 5000) @@
    (5000 :> 6000) @@
    (6000 :> 7000) @@
    (7000 :> 8000) @@
    (8000 :> 9000) @@
    (9000 :> 10000) @@
    (10000 :> 20000) @@
    (20000 :> 30000) @@
    (30000 :> 40000) @@
    (40000 :> 50000) @@
    (50000 :> 60000) @@
    (60000 :> 70000) @@
    (70000 :> 80000) @@
    (80000 :> 90000) @@
    (90000 :> 100000) @@
    (100000 :> 150000)

\* convert_time: keepa minutes -> Timestamp; 0 is the provider's "unknown".
\* convert_time without the offset of the provider's epoch
convert_time_no_offset(keepa_time) ==
    IF keepa_time = 0 THEN "unknown" ELSE keepa_time

\* (keepa_time + 21564000) * 60000 ms after 1970 is keepa_time + 21564000
\* minutes after 1970
convert_time(keepa_time) ==
    IF keepa_time = 0 THEN "unknown"
    ELSE keepa_time + KeepaOffset

\* apply_sales_tiers giving half the floor: x * 0.5 whatever x
apply_sales_tiers_half(x) ==
    IF x = -1 THEN 0 ELSE 5 * x

\* apply_sales_tiers without the table: x * 1.3 whatever x
apply_sales_tiers_flat(x) ==
    IF x = -1 THEN 0 ELSE 13 * x

\* apply_sales_tiers, in tenths of a unit (x * 1.3 = 13 * x tenths)
apply_sales_tiers(x) ==
    IF x = -1 THEN 0
    ELSE IF x \in DOMAIN sales_tiers THEN 10 * sales_tiers[x]
    ELSE 13 * x

\* ---- the product dict returned by the provider ---------------------------
\* `keys' are the keys the dict holds; "df_NEW", "df_LIGHTNING_DEAL" and
\* "df_SALES" stand for data[0]["data"][...]; the frames have one column,
\* "value"
EmptyDict ==
    [keys |-> {}, title |-> "None", df_NEW |-> <<>>, df_LIGHTNING_DEAL |-> <<>>,
     df_SALES |-> <<>>, couponHistory |-> <<>>, monthlySoldHistory |-> <<>>]

\* dict.get(key, default)
get(p, key, default) == IF key \in p.keys THEN p[key] ELSE default

SalesCols   == {"full price"}
CouponCols  == {"% off", "$ off", "SNS %", "SNS $"}
LdCols      == {"LD"}
BsrCols     == {"BSR"}
MonthlyCols == {"monthlySoldMin", "monthlySoldMax"}
HistoryCols == SalesCols \cup CouponCols \cup LdCols \cup BsrCols \cup {"final price"}
DailyCols   == HistoryCols \cup MonthlyCols \cup {"sales min", "sales max"}

\* what a pull_* method hands back: the instance, the frame returned
\* (none = the method returned None) and whether an exception escaped
Ret(s, df, none, raised) == [self |-> s, df |-> df, none |-> none, raised |-> raised]

\* query() without its try/except
query_uncaught(s, resp) ==
    IF s.data = <<>>
    THEN [self |-> [s EXCEPT !.data = IF resp.raises THEN @ ELSE resp.products],
          raised |-> resp.raises]
    ELSE [self |-> s, raised |-> FALSE]

\* query(): `resp' is what the provider answers if it is asked now; an
\* exception of api.query is caught and leaves the empty record [{}]
query(s, resp) ==
    IF s.data = <<>>
    THEN [self |-> [s EXCEPT !.data = IF resp.raises THEN <<EmptyDict>>
                                      ELSE resp.products],
          raised |-> FALSE]
    ELSE [self |-> s, raised |-> FALSE]

\* pull_sales filling the nulls of the record's own df_NEW table in place
pull_sales_inplace(s, resp) ==
    LET q  == IF s.data = <<>> THEN query(s, resp) ELSE [self |-> s, raised |-> FALSE]
        s1 == q.self
    IN  IF q.raised THEN Ret(s1, <<>>, TRUE, TRUE)
        ELSE IF s1.data = <<>> \/ s1.data[1].keys = {}
        THEN Ret(s1, <<>>, TRUE, FALSE)
        ELSE
        LET p  == s1.data[1]
            s2 == [s1 EXCEPT !.title = get(p, "title", "None"),
                             !.data[1].df_NEW = fillna(@, {"value"}, -1),
                             !.reads = @ \cup {"title", "imagesCSV", "brand",
                                               "parentAsin", "df_NEW"}]
            sales == get(p, "df_NEW", <<>>)
        IN  IF Len(sales) > 0
            THEN Ret([s2 EXCEPT !.exists = TRUE,
                                !.last_sales_date = sales[Len(sales)]["t"]],
                     fillna(rename(sales, "full price"), SalesCols, -1),
                     FALSE, FALSE)
            ELSE Ret(s2, <<>>, TRUE, FALSE)

pull_sales(s, resp) ==
    LET q  == IF s.data = <<>> THEN query(s, resp) ELSE [self |-> s, raised |-> FALSE]
        s1 == q.self
    IN  IF q.raised THEN Ret(s1, <<>>, TRUE, TRUE)
        ELSE IF s1.data = <<>> \/ s1.data[1].keys = {}
        THEN Ret(s1, <<>>, TRUE, FALSE)
        ELSE
        LET p  == s1.data[1]
            s2 == [s1 EXCEPT !.title = get(p, "title", "None"),
                             !.reads = @ \cup {"title", "imagesCSV", "brand",
                                               "parentAsin", "df_NEW"}]
            sales == get(p, "df_NEW", <<>>)
        IN  IF Len(sales) > 0
            THEN Ret([s2 EXCEPT !.exists = TRUE,
                                !.last_sales_date = sales[Len(sales)]["t"]],
                     fillna(rename(sales, "full price"), SalesCols, -1),
                     FALSE, FALSE)
            ELSE Ret(s2, <<>>, TRUE, FALSE)

\* CouponRow taking every code for a percentage
CouponRow_all_pct(t, d, sns) ==
    ("t" :> t) @@ ("% off" :> d) @@ ("$ off" :> 0) @@
    ("SNS %" :> sns) @@ ("SNS $" :> 0)

\* one row of coupon_history, from the discount code and the SNS code
CouponRow(t, d, sns) ==
    ("t" :> t) @@
    ("% off" :> (IF d < 0 THEN d ELSE 0)) @@
    ("$ off" :> (IF d > 0 THEN d ELSE 0)) @@          \* x / 100 dollars = x cents
    ("SNS %" :> (IF sns < 0 THEN sns ELSE 0)) @@
    ("SNS $" :> (IF sns > 0 THEN sns ELSE 0))

\* Placeholder building nothing
Placeholder_none(s, series, row) == s

\* the instance after a pull_* method built, for a series the record lacks,
\* the one-row frame `row' in its place (kept in the ghost field placeholders)
Placeholder(s, series, row) ==
    [s EXCEPT !.placeholders = @ \cup {<<series, row>>}]

\* the guard never taken: every step goes on whatever `exists' says
Returns_never(r) == r.raised

\* `if not self.exists: return' after the call of the previous step (an
\* exception of that step leaves this one too)
Returns(r) == r.raised \/ ~r.self.exists

\* rest(r) is the body of a method from the return of its first call, r, on
pull_coupons(s, resp) ==
    LET rest(r) ==
                IF Returns(r) THEN Ret(r.self, <<>>, TRUE, r.raised)
                ELSE IF r.self.data = <<>> THEN Ret(r.self, <<>>, TRUE, TRUE)  \* self.data[0]
                ELSE IF r.none
                THEN Ret([r.self EXCEPT !.reads = @ \cup {"couponHistory"}],
                         <<>>, TRUE, TRUE)                          \* pd.merge(None, ...)
                ELSE
                LET s1 == [r.self EXCEPT !.reads = @ \cup {"couponHistory"}]
                    coupons == get(s1.data[1], "couponHistory", <<>>)
                    times == Stride(coupons, 0, 3)
                    discounts == Stride(coupons, 1, 3)
                    sns_coupons == Stride(coupons, 2, 3)
                    coupon_history ==
                        IF coupons # <<>>
                        THEN [i \in 1..Len(times) |->
                                CouponRow(convert_time(times[i]), discounts[i], sns_coupons[i])]
                        ELSE <<CouponRow(s1.last_sales_date, 0, 0)>>
                    s2 == IF coupons # <<>> THEN s1
                          ELSE Placeholder(s1, "couponHistory", coupon_history[1])
                IN  Ret(s2,
                        ffill(merge_outer(r.df, SalesCols, coupon_history, CouponCols),
                              SalesCols \cup CouponCols),
                        FALSE, FALSE)
    IN  rest(pull_sales(s, resp))

pull_lds(s, resp) ==
    LET rest(r) ==
                IF Returns(r) THEN Ret(r.self, <<>>, TRUE, r.raised)
                ELSE
                LET s1 == [r.self EXCEPT !.reads = @ \cup {"df_LIGHTNING_DEAL"}]
                    p == s1.data[1]
                    lds == IF "df_LIGHTNING_DEAL" \in p.keys
                           THEN rename(fillna(p["df_LIGHTNING_DEAL"], {"value"}, 0), "LD")
                           ELSE <<("t" :> s1.last_sales_date) @@ ("LD" :> 0)>>
                    cols == SalesCols \cup CouponCols \cup LdCols
                    s2 == IF "df_LIGHTNING_DEAL" \in p.keys THEN s1
                          ELSE Placeholder(s1, "df_LIGHTNING_DEAL", lds[1])
                IN  Ret(s2,
                        fillna(ffill(merge_outer(r.df, SalesCols \cup CouponCols, lds, LdCols),
                                     cols), cols, 0),
                        FALSE, FALSE)
    IN  rest(pull_coupons(s, resp))

\* the percentages applied before the absolute discounts are subtracted
FinalPrice_pct_first(full, pct, off, snspct, snsoff) ==
    IF NaN \in {full, pct, off, snspct, snsoff} THEN NaN
    ELSE full * (100 + pct) * (100 + snspct) - (off + snsoff) * PriceScale

\* (full price - $ off - SNS $) * (1 + % off / 100) * (1 + SNS % / 100),
\* in 1/PriceScale of a cent
FinalPrice(full, pct, off, snspct, snsoff) ==
    IF NaN \in {full, pct, off, snspct, snsoff} THEN NaN
    ELSE (full - off - snsoff) * (100 + pct) * (100 + snspct)

\* the lightning deal not overriding the computed price
FinalPriceOf_no_deal(row) ==
    FinalPrice(row["full price"], row["% off"], row["$ off"],
               row["SNS %"], row["SNS $"])

\* the "final price" cell of one row of pull_bsr
FinalPriceOf(row) ==
    IF row["LD"] # 0
    THEN (IF row["LD"] = NaN THEN NaN ELSE row["LD"] * PriceScale)
    ELSE FinalPrice(row["full price"], row["% off"], row["$ off"],
                    row["SNS %"], row["SNS $"])

pull_bsr(s, resp) ==
    LET rest(r) ==
                IF Returns(r) THEN Ret(r.self, <<>>, TRUE, r.raised)
                ELSE
                LET s1 == [r.self EXCEPT !.reads = @ \cup {"df_SALES"}]
                    p == s1.data[1]
                    bsr == IF "df_SALES" \in p.keys
                           THEN rename(replace(p["df_SALES"], {"value"}, -1, NaN), "BSR")
                           ELSE <<("t" :> s1.last_sales_date) @@ ("BSR" :> NaN)>>
                    cols == SalesCols \cup CouponCols \cup LdCols
                    sales_history == ffill(merge_outer(r.df, cols, bsr, BsrCols),
                                           cols \cup BsrCols)
                    s2 == IF "df_SALES" \in p.keys THEN s1
                          ELSE Placeholder(s1, "df_SALES", bsr[1])
                IN  Ret(s2,
                        [i \in 1..Len(sales_history) |->
                            sales_history[i] @@ ("final price" :> FinalPriceOf(sales_history[i]))],
                        FALSE, FALSE)
    IN  rest(pull_lds(s, resp))

pull_monthly_sold(s, resp) ==
    LET rest(r) ==
                IF Returns(r) THEN Ret(r.self, <<>>, TRUE, r.raised)
                ELSE
                LET s1 == [r.self EXCEPT !.reads = @ \cup {"monthlySoldHistory"}]
                    monthly_sold == get(s1.data[1], "monthlySoldHistory", <<>>)
                    times == Stride(monthly_sold, 0, 2)
                    monthly_units == Stride(monthly_sold, 1, 2)
                    MonthlyRow(t, units) ==
                        ("t" :> t) @@
                        ("monthlySoldMin" :> (IF units = -1 THEN 0 ELSE units)) @@
                        ("monthlySoldMax" :> (IF apply_sales_tiers(units) = -10 THEN 0
                                              ELSE apply_sales_tiers(units)))
                    monthly_sold_history ==
                        IF monthly_sold # <<>>
                        THEN [i \in 1..Len(times) |->
                                MonthlyRow(convert_time(times[i]), monthly_units[i])]
                        ELSE <<MonthlyRow(s1.last_sales_date, -1)>>
                    sales_history_monthly ==
                        ffill(merge_outer(r.df, HistoryCols, monthly_sold_history, MonthlyCols),
                              HistoryCols \cup MonthlyCols)
                    s2 == IF monthly_sold # <<>> THEN s1
                          ELSE Placeholder(s1, "monthlySoldHistory",
                                           ("t" :> s1.last_sales_date) @@
                                           ("monthlySoldMin" :> -1))
                IN  Ret([s2 EXCEPT !.sales_history_monthly = sales_history_monthly],
                        sales_history_monthly, FALSE, FALSE)
    IN  rest(pull_bsr(s, resp))

\* ---- daily aggregation ---------------------------------------------------
PivotCols == {"full price", "% off", "$ off", "SNS %", "SNS $", "LD",
              "final price", "sales min", "sales max", "BSR"}
MeanCols  == {"full price", "final price"}
SumCols   == {"sales min", "sales max"}
MinCols   == {"% off", "$ off", "SNS %", "SNS $", "BSR"}
MaxCols   == {"LD"}

\* how many model units of column c make one program unit
UnitsOf(c) ==
    CASE c \in {"full price", "$ off", "SNS $", "LD"} -> 100
      [] c \in {"final price", "coupon"} -> 100 * PriceScale
      [] c = "monthlySoldMax" -> 10
      [] c = "sales min"      -> MinPerMonth
      [] c = "sales max"      -> 10 * MinPerMonth
      [] OTHER                -> 1

\* the non-NaN cells of column c in `rows', as a sequence
Present(rows, c) == SelectSeq([i \in 1..Len(rows) |-> rows[i][c]], LAMBDA v : v # NaN)

\* every column aggregated by min
Aggregate_all_min(rows, c) ==
    LET vals == Present(rows, c)
    IN  IF vals = <<>> THEN [num |-> 0, den |-> 0]
        ELSE [num |-> Min({vals[i] : i \in 1..Len(vals)}), den |-> 1]

\* aggfunc of pivot_table for column c over the rows of one date: an exact
\* quotient num/den in model units of c (den = 0: NaN)
Aggregate(rows, c) ==
    LET vals == Present(rows, c)
        S == {vals[i] : i \in 1..Len(vals)}
    IN  IF c \in SumCols THEN [num |-> SumSeq(vals), den |-> 1]
        ELSE IF vals = <<>> THEN [num |-> 0, den |-> 0]
        ELSE IF c \in MeanCols THEN [num |-> SumSeq(vals), den |-> Len(vals)]
        ELSE IF c \in MaxCols THEN [num |-> Max(S), den |-> 1]
        ELSE [num |-> Min(S), den |-> 1]

\* _format_numbers on one cell: prices and LD rounded to 2 decimals (whole
\* cents), sales counts cut to int (whole units); the result is in cents for
\* the prices and LD, in program units for the other columns
FormatCell(c, q) ==
    IF q.den = 0 THEN NaN
    ELSE IF c \in {"full price", "LD"} THEN RoundDiv(q.num, q.den)
    ELSE IF c = "final price" THEN RoundDiv(q.num, q.den * PriceScale)
    ELSE IF c \in SumCols THEN TruncDiv(q.num, q.den * UnitsOf(c))
    ELSE q.num

\* zeros left in place
ZeroToNaN_kept(v) == v

\* self.pivot.replace(0, np.nan), on one cell
ZeroToNaN(v) == IF v = 0 THEN NaN ELSE v

\* minutely_history.pivot_table(...), the three guarded columns,
\* _format_numbers and replace(0, NaN)
pivot_table(minutely_history) ==
    LET dates == SortedSeq({DateOf(minutely_history[i]["t"]) :
                              i \in 1..Len(minutely_history)})
        RowsOf(d) == SelectSeq(minutely_history, LAMBDA row : DateOf(row["t"]) = d)
        agged == [i \in 1..Len(dates) |->
                    [c \in PivotCols |-> Aggregate(RowsOf(dates[i]), c)]]
        \* dropna=True: a column whose entries are all NaN is left out
        kept == {c \in PivotCols : \E i \in 1..Len(agged) : agged[i][c].den # 0}
        columns == kept \cup {"full price", "sales min", "sales max"}
        Cell(i, c) ==
            IF c \notin kept THEN NaN
            ELSE ZeroToNaN(FormatCell(c, agged[i][c]))
    IN  [none |-> FALSE,
         columns |-> columns,
         rows |-> [i \in 1..Len(dates) |->
                     ("date" :> dates[i]) @@ [c \in PivotCols |-> Cell(i, c)]]]

\* sum(axis=1) of a row over `cols', NaN skipped, in 1/RowSumScale of a
\* program unit
RECURSIVE Gcd(_, _)
Gcd(a, b) == IF b = 0 THEN a ELSE Gcd(b, a % b)
RowSumScale == (100 * PriceScale) * ((10 * MinPerMonth) \div Gcd(100 * PriceScale, 10 * MinPerMonth))
RECURSIVE SumOver(_, _)
SumOver(f, S) ==
    IF S = {} THEN 0
    ELSE LET c == CHOOSE c \in S : TRUE IN f[c] + SumOver(f, S \ {c})
RowSum(row, cols) ==
    SumOver([c \in cols |-> IF row[c] = NaN THEN 0
                            ELSE row[c] * (RowSumScale \div UnitsOf(c))], cols)

\* lines 316-328: keep the rows whose column sum differs from the
\* neighbours' (diff != 0)
trim(minutely_history) ==
    LET n == Len(minutely_history)
        sum1(i) == RowSum(minutely_history[i], DailyCols)
        sum2(i) == IF i < n THEN sum1(i + 1) ELSE 0      \* shift(-1)
        sum3(i) == IF i > 1 THEN sum1(i - 1) ELSE 0      \* shift(1)
        diff(i) == (sum1(i) - sum2(i)) + (sum1(i) - sum3(i))
        keep == SortedSeq({i \in 1..n : diff(i) # 0})
    IN  [k \in 1..Len(keep) |-> minutely_history[keep[k]]]

\* lines 365-380: LD 0 -> NaN and the "coupon" column of short_history
with_coupon(short_history) ==
    [i \in 1..Len(short_history) |->
        LET row == short_history[i]
            coupon == FinalPrice(row["full price"], row["% off"], row["$ off"],
                                 row["SNS %"], row["SNS $"])
            full == IF row["full price"] = NaN THEN NaN
                    ELSE row["full price"] * PriceScale
        IN  [c \in DOMAIN row \cup {"coupon"} |->
                IF c = "coupon" THEN (IF coupon = NaN \/ coupon = full THEN NaN
                                      ELSE coupon)
                ELSE IF c = "LD" /\ row[c] = 0 THEN NaN
                ELSE IF c = "full price" /\ row[c] = -1 THEN NaN
                ELSE row[c]]]

\* the price cells left as they are
null_unavailable_none(filled) == filled

\* lines 312-314: where full price is -1, final price and full price become
\* null
null_unavailable(filled) ==
    [i \in 1..Len(filled) |->
        [c \in DOMAIN filled[i] |->
            IF c = "final price" /\ filled[i]["full price"] = -1 THEN NaN
            ELSE IF c = "full price" /\ filled[i][c] = -1 THEN NaN
            ELSE filled[i][c]]]

\* the dense per-minute timeline of generate_daily_sales (lines 291-314)
minutely(short_history, days, today) ==
    LET sh == [i \in 1..Len(short_history) |->
                 short_history[i] @@
                 ("sales min" :> short_history[i]["monthlySoldMin"]) @@
                 ("sales max" :> short_history[i]["monthlySoldMax"])]
        lifetime == date_range((today - days) * MinPerDay, Max(IndexSet(sh)))
    IN  null_unavailable(ffill(merge_left(lifetime, {}, sh, DailyCols), DailyCols))

NonePivot == [none |-> TRUE, columns |-> {}, rows |-> <<>>]

generate_daily_sales(s, resp, days, today) ==
    LET rest(r) ==
                IF Returns(r)
                THEN [self |-> [r.self EXCEPT !.short_history = <<>>], raised |-> r.raised,
                      minutely_history |-> <<>>]
                ELSE
                LET minutely_history == minutely(r.df, days, today)
                IN  [self |-> [r.self EXCEPT
                                  !.short_history = with_coupon(trim(minutely_history)),
                                  !.pivot = pivot_table(minutely_history)],
                     raised |-> FALSE,
                     minutely_history |-> minutely_history]
    IN  rest(pull_monthly_sold(s, resp))

\* the mean of column c over `rows', NaN skipped: num/den, den = 0 for NaN
MeanOf(rows, c) ==
    LET vals == Present(rows, c)
    IN  [num |-> SumSeq(vals), den |-> Len(vals)]

get_last_days(s, resp, days, today) ==
    LET rest(r) ==
            LET s1 == r.self
            IN  IF Returns(r) THEN r
                ELSE IF s1.pivot.none THEN [r EXCEPT !.raised = TRUE]
                ELSE
                LET last_days == SelectSeq(s1.pivot.rows,
                                           LAMBDA row : row["date"] >= today - days)
                    min_sales == SumSeq(Present(last_days, "sales min"))
                    max_sales == SumSeq(Present(last_days, "sales max"))
                IN  [r EXCEPT !.self = [s1 EXCEPT
                                  !.last_days = last_days,
                                  !.min_sales = min_sales,
                                  !.max_sales = max_sales,
                                  !.avg_sales = min_sales + max_sales,     \* in halves
                                  !.full_price = MeanOf(last_days, "full price"),
                                  !.avg_price = IF "final price" \in s1.pivot.columns
                                                THEN MeanOf(last_days, "final price")
                                                ELSE @]]
    IN  rest(generate_daily_sales(s, resp, days, today))

\* get_sales_history_by_date (lines 402-430): the monthly-sold counts as a
\* table Date / Min Sales / Max Sales / Avg Sales, the -1 entries left out;
\* an empty frame when the product is not known to exist or has no counts.
\* Max Sales is in tenths of a unit as apply_sales_tiers is; Avg Sales is
\* int(min * 0.9 + max * 0.1)
HistoryRow_flat(t, units) ==
    ("Date" :> convert_time(t)) @@
    ("Min Sales" :> units) @@
    ("Max Sales" :> 13 * units) @@
    ("Avg Sales" :> (90 * units + 13 * units) \div 100)

HistoryRow(t, units) ==
    ("Date" :> convert_time(t)) @@
    ("Min Sales" :> units) @@
    ("Max Sales" :> apply_sales_tiers(units)) @@
    ("Avg Sales" :> (90 * units + apply_sales_tiers(units)) \div 100)

get_sales_history_by_date(s, resp) ==
    LET rest(q) ==
            IF ~q.self.exists THEN Ret(q.self, <<>>, FALSE, q.raised)
            ELSE
            LET monthly_sold == get(q.self.data[1], "monthlySoldHistory", <<>>)
                times == Stride(monthly_sold, 0, 2)
                monthly_units == Stride(monthly_sold, 1, 2)
                history_df == [i \in 1..Len(times) |-> HistoryRow(times[i], monthly_units[i])]
            IN  Ret(q.self, SelectSeq(history_df, LAMBDA row : row["Min Sales"] # -1),
                    FALSE, FALSE)
    IN  rest(IF s.data = <<>> THEN query(s, resp) ELSE [self |-> s, raised |-> FALSE])

\* KeepaProduct.__init__
KeepaProduct ==
    [data |-> <<>>, exists |-> FALSE, title |-> "None", pivot |-> NonePivot,
     avg_price |-> [num |-> 0, den |-> 1],
     min_sales |-> Unset, max_sales |-> Unset, avg_sales |-> Unset,
     full_price |-> [num |-> 0, den |-> 0],
     last_sales_date |-> Unset, last_days |-> <<>>,
     sales_history_monthly |-> <<>>, short_history |-> <<>>,
     reads |-> {}, placeholders |-> {}]

\* ---- the provider ---------------------------------------------------------
\* keepa minutes at which the provider may hold an event: NumDays whole days
KeepaTimes == MinPerDay .. (MinPerDay + NumDays * MinPerDay - 1)
Day0 == (MinPerDay + KeepaOffset) \div MinPerDay      \* date of the first of them

PriceValues   == {NaN, 1000}            \* unavailable, $10.00
LdValues      == {NaN, 420}             \* no deal, $4.20
BsrValues     == {-1, 7}                \* no rank, rank 7
MonthlyValues == {-1, 100, 60}          \* unknown, a table key, not a key
CouponCodes   == << <<-10, 0>>, <<-10, 50>>, <<50, -20>>, <<0, 0>> >>

Events ==
    [s : {"df_NEW"}, k : KeepaTimes, v : PriceValues] \cup
    [s : {"df_LIGHTNING_DEAL"}, k : KeepaTimes, v : LdValues] \cup
    [s : {"df_SALES"}, k : KeepaTimes, v : BsrValues] \cup
    [s : {"monthlySoldHistory"}, k : KeepaTimes, v : MonthlyValues] \cup
    [s : {"couponHistory"}, k : KeepaTimes, v : 1..Len(CouponCodes)]

\* the sets of at most n events, no series holding two events at one time
RECURSIVE EventSets(_)
EventSets(n) ==
    IF n = 0 THEN {{}}
    ELSE LET smaller == EventSets(n - 1)
         IN  smaller \cup
             {E \cup {e} : E \in smaller,
                           e \in Events}

WellFormed(E) == \A e1, e2 \in E : (e1.s = e2.s /\ e1.k = e2.k) => e1 = e2

\* the events of series s, by increasing time
SeriesOf(E, s) ==
    LET ks == SortedSeq({e.k : e \in {x \in E : x.s = s}})
    IN  [i \in 1..Len(ks) |-> CHOOSE e \in E : e.s = s /\ e.k = ks[i]]

RECURSIVE Flatten(_)
Flatten(ss) == IF ss = <<>> THEN <<>> ELSE Head(ss) \o Flatten(Tail(ss))

\* the product dict holding the events E: a frame per price-like series
\* (the provider's library has decoded their times), flat arrays of keepa
\* minutes and codes for the coupons and the monthly-sold counts
Frame(E, s) ==
    LET evs == SeriesOf(E, s)
    IN  [i \in 1..Len(evs) |-> ("t" :> convert_time(evs[i].k)) @@ ("value" :> evs[i].v)]

Product(E) ==
    [keys |-> {"title"} \cup {e.s : e \in E},
     title |-> "T",
     df_NEW |-> Frame(E, "df_NEW"),
     df_LIGHTNING_DEAL |-> Frame(E, "df_LIGHTNING_DEAL"),
     df_SALES |-> Frame(E, "df_SALES"),
     couponHistory |->
        LET evs == SeriesOf(E, "couponHistory")
        IN  Flatten([i \in 1..Len(evs) |->
                       <<evs[i].k, CouponCodes[evs[i].v][1], CouponCodes[evs[i].v][2]>>]),
     monthlySoldHistory |->
        LET evs == SeriesOf(E, "monthlySoldHistory")
        IN  Flatten([i \in 1..Len(evs) |-> <<evs[i].k, evs[i].v>>])]

\* an item listed at $10.00 from the first minute on
Listed == {[s |-> "df_NEW", k |-> MinPerDay, v |-> 1000]}

\* what the provider holds for the ASIN: no product, or one product with at
\* most MaxEvents events, possibly on top of the listing
Catalogs ==
    {<<>>} \cup
    {<<Product(E)>> :
        E \in {X \in {Y \cup L : Y \in EventSets(MaxEvents), L \in {{}, Listed}} :
                 WellFormed(X)}}

VARIABLES
    catalog,            \* the provider's answer for the ASIN
    today,              \* the date of pd.to_datetime("today"), held fixed
    self,               \* the KeepaProduct instance at hand (`product' in the tab)
    op,                 \* the operation that ran last, its argument and its date
    raised,             \* whether that operation let an exception escape
    minutely_history,   \* the dense timeline the last generate_daily_sales built
    arg,                \* the argument of the function applied on its own
    result,             \* its result
    tab,                \* the sales-estimator tab: the bulk loop and what is shown
    llm                 \* a call of LLMService.generate_response: where it is,
                        \* what it was given, what it did and what it returned

vars == <<catalog, today, self, op, raised, minutely_history, arg, result, tab, llm>>

\* the answers api.query may give: an exception, or the catalog's products
Responses == {[raises |-> TRUE, products |-> <<>>],
              [raises |-> FALSE, products |-> catalog]}

\* the answers that matter to an instance: the provider is asked only while
\* no data is held
Answers(s) == IF s.data = <<>> THEN Responses
              ELSE {[raises |-> FALSE, products |-> catalog]}

Windows == 1..MaxWindow

Op(name, days) == [name |-> name, days |-> days]

\* no call of generate_response yet
IdleLLM == [pc |-> "idle", api_key |-> FALSE, content |-> "str", context |-> FALSE,
            prompt |-> 0, model_calls |-> 0, tool_runs |-> 0,
            first |-> "none", function_name |-> "none", tool_result |-> "none",
            second |-> "none", returned |-> "none", raised |-> FALSE]

IdleTab == [pc |-> "idle", n |-> 0, i |-> 0, all_products_data |-> <<>>,
            fetched |-> <<>>, shown |-> "none"]

InitProduct ==
    /\ today = Day0 + NumDays       \* every event of the provider is past
    /\ self = KeepaProduct
    /\ op = Op("__init__", 0)
    /\ raised = FALSE
    /\ minutely_history = <<>>

Init ==
    /\ catalog \in Catalogs
    /\ InitProduct
    /\ arg = 0
    /\ result = Unset
    /\ tab = IdleTab
    /\ llm = IdleLLM

\* product = KeepaProduct(api_key, asin, domain)
New ==
    /\ self' = KeepaProduct
    /\ op' = Op("__init__", 0)
    /\ raised' = FALSE
    /\ UNCHANGED <<llm, catalog, today, minutely_history, arg, result, tab>>

\* product.query()
Query ==
    \E resp \in Answers(self) :
        LET r == query(self, resp)
        IN  /\ self' = r.self
            /\ raised' = r.raised
            /\ op' = IF self.data = <<>> THEN Op("query", 0) ELSE op   \* else a no-op
            /\ UNCHANGED <<llm, catalog, today, minutely_history, arg, result, tab>>

\* product.get_last_days(days)
GetLastDays ==
    \E days \in Windows, resp \in Answers(self) :
        \E r \in {get_last_days([self EXCEPT !.reads = {}, !.placeholders = {}],
                                   resp, days, today)} :
            /\ self' = r.self
            /\ raised' = r.raised
            /\ minutely_history' = r.minutely_history
            /\ op' = Op("get_last_days", days)
            /\ UNCHANGED <<llm, catalog, today, arg, result, tab>>

\* product.get_sales_history_by_date()
GetSalesHistoryByDate ==
    \E resp \in Answers(self) :
        \E r \in {get_sales_history_by_date(self, resp)} :
            /\ self' = r.self
            /\ raised' = r.raised
            /\ result' = r.df
            /\ op' = Op("get_sales_history_by_date", 0)
            /\ UNCHANGED <<llm, catalog, today, minutely_history, arg, tab>>

Next == New \/ Query \/ GetLastDays \/ GetSalesHistoryByDate

Spec == Init /\ [][Next]_vars

\* ---- apply_sales_tiers on its own ---------------------------------------
MaxFloor == 110
TierInputs == (-1 .. MaxFloor) \cup DOMAIN sales_tiers

InitTiers ==
    /\ catalog = <<>>
    /\ InitProduct
    /\ arg \in TierInputs
    /\ result = Unset
    /\ tab = IdleTab
    /\ llm = IdleLLM

ApplySalesTiers ==
    /\ result = Unset
    /\ result' = apply_sales_tiers(arg)
    /\ UNCHANGED <<llm, catalog, today, self, op, raised, minutely_history, arg, tab>>

NextTiers == ApplySalesTiers

SpecTiers == InitTiers /\ [][NextTiers]_vars

\* ---- convert_time on its own ---------------------------------------------
\* python values handed to convert_time: an int, None, or a string (the
\* v-th of MalformedStrings)
MaxKeepaTime == 40
MalformedStrings == <<"0", "abc">>
PyInt(n) == [type |-> "int", v |-> n]
None == [type |-> "NoneType", v |-> 0]
PyStr(k) == [type |-> "str", v |-> k]
TimeInputs == {PyInt(n) : n \in 0..MaxKeepaTime} \cup {None}
              \cup {PyStr(k) : k \in 1..Len(MalformedStrings)}

\* what a call hands back: "unknown", a Timestamp or a date (t in minutes,
\* resp. days, after 1970), or the exception that left it
Unknown == [kind |-> "unknown", t |-> 0]
Timestamp(t) == [kind |-> "Timestamp", t |-> t]
Date(d) == [kind |-> "date", t |-> d]
TypeError == [kind |-> "TypeError", t |-> 0]
NoResult == [kind |-> "none", t |-> 0]

\* KeepaProduct.convert_time called with any python value: `keepa_time == 0'
\* is False for None and for a string, and `keepa_time + 21564000' then
\* raises TypeError; nothing catches it
call_convert_time(x) ==
    IF x.type = "int"
    THEN (IF x.v = 0 THEN Unknown ELSE Timestamp(convert_time(x.v)))
    ELSE TypeError

\* convert_time of src/app.py: the same, cut to the date by .date()
app_convert_time(x) ==
    IF x.type = "int"
    THEN (IF x.v = 0 THEN Unknown ELSE Date(DateOf(convert_time(x.v))))
    ELSE TypeError

InitTime ==
    /\ catalog = <<>>
    /\ InitProduct
    /\ arg \in TimeInputs
    /\ result = NoResult
    /\ tab = IdleTab
    /\ llm = IdleLLM

\* KeepaProduct.convert_time of src/services/keepa_service.py
ConvertTime ==
    /\ op.name = "__init__"
    /\ result' = call_convert_time(arg)
    /\ op' = Op("convert_time", 0)
    /\ UNCHANGED <<llm, catalog, today, self, raised, minutely_history, arg, tab>>

\* KeepaProduct.convert_time of src/sales_estimator_tab.py, the same code
ConvertTimeTab ==
    /\ op.name = "__init__"
    /\ result' = call_convert_time(arg)
    /\ op' = Op("tab.convert_time", 0)
    /\ UNCHANGED <<llm, catalog, today, self, raised, minutely_history, arg, tab>>

\* convert_time of src/app.py
ConvertTimeApp ==
    /\ op.name = "__init__"
    /\ result' = app_convert_time(arg)
    /\ op' = Op("app.convert_time", 0)
    /\ UNCHANGED <<llm, catalog, today, self, raised, minutely_history, arg, tab>>

NextTime == ConvertTime \/ ConvertTimeTab \/ ConvertTimeApp

SpecTime == InitTime /\ [][NextTime]_vars

\* ---- KeepaProduct of src/sales_estimator_tab.py: the monthly summary ------
\* pull_sales of that class (lines 142-162): no guard before self.data[0]
\* (IndexError on an empty answer); exists is set when the price table is
\* not empty and is never cleared
tab_pull_sales(s, resp) ==
    LET rest(q) ==
            IF q.self.data = <<>> THEN [self |-> q.self, raised |-> TRUE]
            ELSE LET p == q.self.data[1]
                     sales == get(p, "df_NEW", <<>>)
                     s1 == [q.self EXCEPT !.title = get(p, "title", "None")]
                 IN  IF Len(sales) > 0
                     THEN [self |-> [s1 EXCEPT !.exists = TRUE,
                                               !.last_sales_date = sales[Len(sales)]["t"]],
                           raised |-> FALSE]
                     ELSE [self |-> s1, raised |-> FALSE]
    IN  rest(query(s, resp))

\* generate_daily_sales of that class, up to where it ends: once exists is
\* set, an item with a price history stops in pull_lds at `l.rename'
\* (NameError, line 216), and an item without one in pull_coupons at
\* pd.merge(None, ...) (TypeError, lines 198-200); get_last_days
\* (lines 411-414) ends the same way
tab_generate_daily_sales(s, resp) ==
    LET rest(r) ==
            IF r.raised THEN [self |-> r.self, raised |-> TRUE]
            ELSE [self |-> r.self, raised |-> r.self.exists]
    IN  rest(tab_pull_sales(s, resp))

SummaryCols == {"final price", "full price", "sales max", "sales min", "BSR"}
NoSummary == [none |-> TRUE, rows |-> <<>>]

\* the aggregate of column c over the daily rows of one year-month, as the
\* aggfunc dict of lines 396-402 has it: sums for the sales, means for the
\* prices and for BSR; num/den, den = 0 for NaN
MonthlyAggregate(rows, c) ==
    IF c \in {"sales max", "sales min"}
    THEN [num |-> SumSeq(Present(rows, c)), den |-> 1]
    ELSE MeanOf(rows, c)

\* lines 393-409: summary.pivot_table(index="year-month", ...) and the
\* rounding, on the frame `summary' of daily rows with their year-month;
\* a column that is NaN throughout is dropped by pivot_table, and the
\* rounding then fails on it (KeyError)
monthly_pivot_table(summary) ==
    LET yms == SortedSeq({summary[i]["year-month"] : i \in 1..Len(summary)})
        RowsOf(ym) == SelectSeq(summary, LAMBDA row : row["year-month"] = ym)
        agged == [i \in 1..Len(yms) |->
                    [c \in SummaryCols |-> MonthlyAggregate(RowsOf(yms[i]), c)]]
        kept == {c \in SummaryCols : \E i \in 1..Len(agged) : agged[i][c].den # 0}
    IN  IF kept # SummaryCols THEN [raised |-> TRUE, summary |-> NoSummary]
        ELSE [raised |-> FALSE,
              summary |->
                [none |-> FALSE,
                 rows |-> [i \in 1..Len(yms) |->
                            ("year-month" :> yms[i]) @@
                            [c \in SummaryCols |->
                                IF agged[i][c].den = 0 THEN NaN
                                ELSE RoundDiv(agged[i][c].num, agged[i][c].den)]]]]

\* generate_monthly_summary (lines 382-409): with data and a daily summary
\* held, lines 388-392 call .zfill on an Index, which has no such method
\* (AttributeError), so the pivot_table of line 393 is not reached
generate_monthly_summary(s, resp) ==
    LET rest(r) ==
            IF r.raised THEN [self |-> r.self, raised |-> TRUE, summary |-> NoSummary]
            ELSE IF r.self.data # <<>> /\ ~r.self.pivot.none
            THEN [self |-> r.self, raised |-> TRUE, summary |-> NoSummary]
            ELSE [self |-> r.self, raised |-> FALSE, summary |-> NoSummary]
    IN  rest(IF s.data = <<>> THEN tab_generate_daily_sales(s, resp)
             ELSE [self |-> s, raised |-> FALSE])

\* the frames handed to the pivot_table of line 393: at most MaxSummaryRows
\* daily rows of 2020-01 and 2020-02
MaxSummaryRows == 2
YearMonths == {202001, 202002}
SummaryRows ==
    {("year-month" :> ym) @@ ("BSR" :> b) @@ ("final price" :> p) @@
     ("full price" :> p) @@ ("sales min" :> 3) @@ ("sales max" :> 4) :
        ym \in YearMonths, b \in {NaN, 7, 10}, p \in {NaN, 1000}}
SummaryFrames ==
    UNION {[1..n -> SummaryRows] : n \in 0..MaxSummaryRows}

\* a daily summary of one day, as generate_daily_sales leaves it
OneDayPivot ==
    [none |-> FALSE, columns |-> PivotCols,
     rows |-> <<("date" :> Day0) @@ [c \in PivotCols |-> 7]>>]

InitMonthly ==
    /\ catalog \in {<<>>, <<Product(Listed)>>}
    /\ today = Day0 + NumDays
    /\ \E d \in {<<>>, catalog}, pv \in {NonePivot, OneDayPivot} :
          self = [KeepaProduct EXCEPT !.data = d, !.pivot = pv]
    /\ op = Op("__init__", 0)
    /\ raised = FALSE
    /\ minutely_history = <<>>
    /\ arg \in SummaryFrames
    /\ result = NoSummary
    /\ tab = IdleTab
    /\ llm = IdleLLM

\* product.generate_monthly_summary()
GenerateMonthlySummary ==
    /\ op.name = "__init__"
    /\ \E resp \in Answers(self) :
        \E r \in {generate_monthly_summary(self, resp)} :
            /\ self' = r.self
            /\ raised' = r.raised
            /\ result' = r.summary
    /\ op' = Op("generate_monthly_summary", 0)
    /\ UNCHANGED <<llm, catalog, today, minutely_history, arg, tab>>

\* summary.pivot_table(...) and the rounding of lines 393-409 on their own
MonthlyPivotTable ==
    /\ op.name = "__init__"
    /\ \E r \in {monthly_pivot_table(arg)} :
            /\ raised' = r.raised
            /\ result' = r.summary
    /\ op' = Op("monthly_pivot_table", 0)
    /\ UNCHANGED <<llm, catalog, today, self, minutely_history, arg, tab>>

NextMonthly == GenerateMonthlySummary \/ MonthlyPivotTable

SpecMonthly == InitMonthly /\ [][NextMonthly]_vars

\* ---- a constant monthly-sold floor over a whole month ----------------------
\* items listed at $10.00 from the first minute on with a monthly-sold count
\* m reported at that minute, and a last event on the last minute of the
\* DaysPerMonth-th day, so that the dense timeline covers DaysPerMonth whole
\* days; today is the day after
MaxSpreadFloor == 70
LastMinute == MinPerDay + DaysPerMonth * MinPerDay - 1
SpreadProducts ==
    {Product(Listed \cup {[s |-> "monthlySoldHistory", k |-> MinPerDay, v |-> m],
                          [s |-> "df_SALES", k |-> LastMinute, v |-> b]}) :
        m \in 1..MaxSpreadFloor, b \in BsrValues}

InitSpread ==
    /\ catalog \in {<<p>> : p \in SpreadProducts}
    /\ today = Day0 + DaysPerMonth
    /\ self = KeepaProduct
    /\ op = Op("__init__", 0)
    /\ raised = FALSE
    /\ minutely_history = <<>>
    /\ arg = 0
    /\ result = Unset
    /\ tab = IdleTab
    /\ llm = IdleLLM

\* product.get_last_days(days=30)
GetLastMonth ==
    /\ op.name # "get_last_days"
    /\ \E resp \in Answers(self) :
        \E r \in {get_last_days([self EXCEPT !.reads = {}, !.placeholders = {}],
                                   resp, DaysPerMonth, today)} :
            /\ self' = r.self
            /\ raised' = r.raised
            /\ minutely_history' = r.minutely_history
    /\ op' = Op("get_last_days", DaysPerMonth)
    /\ UNCHANGED <<llm, catalog, today, arg, result, tab>>

NextSpread == Query \/ GetLastMonth

SpecSpread == InitSpread /\ [][NextSpread]_vars

\* ---- perform_keepa_analysis (src/app.py): the monthly sales of a row ------
\* lines 81-86 and 178-180: monthlySold (-1 when absent) gives the floor,
\* sales_tiers.get(monthlySold, 0) the ceiling (the table of lines 35-41 is
\* the one of KeepaProduct), and int(round(floor * 0.9 + ceiling * 0.1, 0))
\* the average, -1 counting as floor 0
monthly_sales_row(monthlySold) ==
    LET monthly_sales_max == IF monthlySold \in DOMAIN sales_tiers
                             THEN sales_tiers[monthlySold] ELSE 0
        monthly_sales == IF monthlySold = -1 THEN 0 ELSE monthlySold
    IN  [type |-> "row",
         min |-> monthly_sales,
         max |-> monthly_sales_max,
         avg |-> RoundDiv(9 * monthly_sales + monthly_sales_max, 10)]

\* one product of a batch becomes a result row
PerformKeepaAnalysis ==
    /\ op.name = "__init__"
    /\ result' = monthly_sales_row(arg)
    /\ op' = Op("perform_keepa_analysis", 0)
    /\ UNCHANGED <<llm, catalog, today, self, raised, minutely_history, arg, tab>>

NextApp == PerformKeepaAnalysis

SpecApp == InitTiers /\ [][NextApp]_vars

\* ---- LLMService.generate_response (src/services/llm_service.py) ----------
\* the strings generate_response returns
KeyMissing      == "Gemini API Key is missing."
NoCandidates    == "I'm sorry, I couldn't generate a response. Please try again."
EmptyResponse   == "I'm sorry, I received an empty response."
UnexpectedError == "An unexpected error occurred with the AI model: ..."
FirstText       == "response.text"
SecondText      == "second_response.text"
Strings == {KeyMissing, NoCandidates, EmptyResponse, UnexpectedError,
            FirstText, SecondText}

\* what model.generate_content may do on the first call: raise, answer
\* without candidates, without parts, with a function call, with text, or
\* with parts that hold no text (response.text then raises)
FirstAnswers == {"raises", "no candidates", "no parts", "function_call",
                 "text", "no text"}
SecondAnswers == {"raises", "text", "no text"}
\* the names a function call may carry
FunctionNames == {"google_web_search", "get_amazon_product_details", "other"}
KnownTools == {"google_web_search", "get_amazon_product_details"}

\* what running a tool may give: _execute_google_web_search (lines 38-41)
\* the date or its refusal, _execute_get_amazon_product_details (lines
\* 43-53) the invalid-ASIN error or the service's answer; either may raise
\* (e.g. on an argument the function does not take)
ToolResults(name) ==
    IF name = "google_web_search"
    THEN {"%Y-%m-%d", "This tool can only fetch the current date.", "raises"}
    ELSE IF name = "get_amazon_product_details"
    THEN {"Invalid ASIN provided", "get_product_info(...)", "raises"}
    ELSE {"Error: Unknown tool"}

\* the except clause left out: the exception leaves generate_response
caught_reraise(l) ==
    [l EXCEPT !.pc = "done", !.raised = TRUE]

\* lines 140-141: any exception of the try block becomes an error string
caught(l) ==
    [l EXCEPT !.pc = "done", !.returned = UnexpectedError]

\* return <string>
returns(l, string) == [l EXCEPT !.pc = "done", !.returned = string]

InitLLM ==
    /\ catalog = <<>>
    /\ InitProduct
    /\ arg = 0
    /\ result = Unset
    /\ tab = IdleTab
    /\ \E key \in BOOLEAN, content \in {"str", "list"}, context \in BOOLEAN :
          llm = [IdleLLM EXCEPT !.api_key = key, !.content = content,
                                !.context = context]

\* lines 55-98: generate_response(messages, context_data) up to the try
\* block; without an API key it returns at once, else the prompt is the
\* context (if any) and the last message's content
GenerateResponse ==
    /\ llm.pc = "idle"
    /\ llm' = IF ~llm.api_key THEN returns(llm, KeyMissing)
              ELSE [llm EXCEPT !.pc = "first",
                               !.prompt = (IF llm.context THEN 1 ELSE 0) + 1]
    /\ op' = Op("generate_response", 0)
    /\ UNCHANGED <<catalog, today, self, raised, minutely_history, arg, result, tab>>

\* lines 101-113 and 138: the first model call and what follows from its
\* answer
FirstCall ==
    /\ llm.pc = "first"
    /\ \E answer \in FirstAnswers :
        \E l \in {[llm EXCEPT !.model_calls = @ + 1, !.first = answer]} :
          llm' = CASE answer = "raises"        -> caught(l)
                   [] answer = "no candidates" -> returns(l, NoCandidates)
                   [] answer = "no parts"      -> returns(l, EmptyResponse)
                   [] answer = "text"          -> returns(l, FirstText)
                   [] answer = "no text"       -> caught(l)
                   [] answer = "function_call" -> [l EXCEPT !.pc = "tool"]
    /\ UNCHANGED <<catalog, today, self, op, raised, minutely_history, arg, result, tab>>

\* lines 112-122: the tool named by the function call runs with the
\* arguments the model gave (it may raise, e.g. on an unexpected argument);
\* an unknown name runs nothing and gives an error string as the result
RunTool ==
    /\ llm.pc = "tool"
    /\ \E name \in FunctionNames :
        \E tool_result \in ToolResults(name) :
          llm' = IF name \notin KnownTools
                 THEN [llm EXCEPT !.pc = "second", !.function_name = name,
                                  !.tool_result = tool_result]
                 ELSE IF tool_result = "raises"
                 THEN caught([llm EXCEPT !.function_name = name,
                                         !.tool_runs = @ + 1,
                                         !.tool_result = tool_result])
                 ELSE [llm EXCEPT !.pc = "second", !.function_name = name,
                                  !.tool_runs = @ + 1,
                                  !.tool_result = tool_result]
    /\ UNCHANGED <<catalog, today, self, op, raised, minutely_history, arg, result, tab>>

\* lines 125-136: the second model call, with the tool's result
SecondCall ==
    /\ llm.pc = "second"
    /\ \E answer \in SecondAnswers :
        \E l \in {[llm EXCEPT !.model_calls = @ + 1, !.second = answer,
                               !.prompt = @ + 2]} :
          llm' = IF answer = "text" THEN returns(l, SecondText) ELSE caught(l)
    /\ UNCHANGED <<catalog, today, self, op, raised, minutely_history, arg, result, tab>>

NextLLM == GenerateResponse \/ FirstCall \/ RunTool \/ SecondCall

\* generate_response is one sequential call: each of its steps is taken
SpecLLM == InitLLM /\ [][NextLLM]_vars /\ WF_vars(NextLLM)

\* ---- the two KeepaProduct classes side by side ----------------------------
\* get_last_days of src/sales_estimator_tab.py (lines 411-427): the steps
\* after generate_daily_sales are reached only when exists is false, and
\* then it returns
tab_get_last_days(s, resp, days) == tab_generate_daily_sales(s, resp)

\* a fresh instance of each class is given the same answer of the provider
\* and the same window: `self' is the instance of
\* src/services/keepa_service.py, `result' holds the instance of
\* src/sales_estimator_tab.py and whether its call raised
BothGetLastDays ==
    /\ op.name = "__init__"
    /\ \E days \in Windows, resp \in Responses :
        \E r \in {get_last_days(KeepaProduct, resp, days, today)} :
          \E u \in {tab_get_last_days(KeepaProduct, resp, days)} :
            /\ self' = r.self
            /\ raised' = r.raised
            /\ minutely_history' = r.minutely_history
            /\ result' = u
            /\ op' = Op("both.get_last_days", days)
    /\ UNCHANGED <<llm, catalog, today, arg, tab>>

NextBoth == BothGetLastDays

SpecBoth == Init /\ [][NextBoth]_vars

\* ---- KeepaProduct of src/sales_estimator_tab.py: replacing the record ----
\* the lists handed to extract_from_products: at most MaxProducts products,
\* each under an ASIN; the instance's own is OwnAsin
MaxProducts == 2
OwnAsin == "A"
Asins == {OwnAsin, "B"}
Unpriced == {[s |-> "monthlySoldHistory", k |-> MinPerDay, v |-> 100]}
Repriced == {[s |-> "df_NEW", k |-> MinPerDay + 1, v |-> 1000]}
TabProducts == {Product(Listed), Product(Repriced), Product(Unpriced), Product({})}
ProductLists ==
    UNION {[1..n -> [asin : Asins, product : TabProducts]] : n \in 0..MaxProducts}

\* extract_from_products (lines 107-108): the record becomes the products
\* of the list under the instance's ASIN; nothing else is touched
extract_from_products(s, products) ==
    LET own == SelectSeq(products, LAMBDA x : x.asin = OwnAsin)
    IN  [s EXCEPT !.data = [i \in 1..Len(own) |-> own[i].product]]

InitExists ==
    /\ catalog \in {<<>>, <<Product(Listed)>>, <<Product(Unpriced)>>}
    /\ InitProduct
    /\ arg = 0
    /\ result = Unset
    /\ tab = IdleTab
    /\ llm = IdleLLM

\* product.query()
TabQuery ==
    /\ \E resp \in Answers(self) :
          \E r \in {query(self, resp)} :
              /\ self' = r.self
              /\ raised' = r.raised
    /\ op' = Op("tab.query", 0)
    /\ UNCHANGED <<llm, catalog, today, minutely_history, arg, result, tab>>

\* product.extract_from_products(products)
ExtractFromProducts ==
    /\ \E products \in ProductLists :
          self' = extract_from_products(self, products)
    /\ raised' = FALSE
    /\ op' = Op("tab.extract_from_products", 0)
    /\ UNCHANGED <<llm, catalog, today, minutely_history, arg, result, tab>>

\* product.pull_sales()
TabPullSales ==
    /\ \E resp \in Answers(self) :
          \E r \in {tab_pull_sales(self, resp)} :
              /\ self' = r.self
              /\ raised' = r.raised
    /\ op' = Op("tab.pull_sales", 0)
    /\ UNCHANGED <<llm, catalog, today, minutely_history, arg, result, tab>>

\* product.get_last_days(days)
TabGetLastDays ==
    /\ \E resp \in Answers(self), days \in Windows :
          \E r \in {tab_generate_daily_sales(self, resp)} :
              /\ self' = r.self
              /\ raised' = r.raised
              /\ op' = Op("tab.get_last_days", days)
    /\ UNCHANGED <<llm, catalog, today, minutely_history, arg, result, tab>>

NextExists == TabQuery \/ ExtractFromProducts \/ TabPullSales \/ TabGetLastDays

SpecExists == InitExists /\ [][NextExists]_vars

\* ---- the sales-estimator tab (src/ui/sales_estimator.py) -----------------
SingleDays == 360
BulkDays   == 30
MaxBatch   == 2         \* ASINs entered for a bulk analysis

\* lines 20-25 and 91-94: a fresh product is queried and, if it exists,
\* get_last_days(days) runs
Analyze(resp, days) ==
    LET q == query(KeepaProduct, resp)
    IN  IF q.raised THEN [self |-> q.self, raised |-> TRUE,
                          minutely_history |-> <<>>, found |-> FALSE]
        ELSE IF q.self.exists
        THEN get_last_days(q.self, resp, days, today) @@ [found |-> TRUE]
        ELSE [self |-> q.self, raised |-> FALSE,
              minutely_history |-> <<>>, found |-> FALSE]

\* "Analyze Single ASIN" (lines 17-69)
AnalyzeSingle ==
    /\ tab.pc = "idle"
    /\ \E resp \in Responses :
        \E r \in {Analyze(resp, SingleDays)} :
            /\ self' = r.self
            /\ raised' = r.raised
            /\ minutely_history' = r.minutely_history
            /\ tab' = [tab EXCEPT !.shown = IF r.raised THEN "exception"
                                            ELSE IF r.found THEN "analysis"
                                            ELSE "Could not find data"]
    /\ op' = Op("single", SingleDays)
    /\ UNCHANGED <<llm, catalog, today, arg, result>>

\* "Analyze Bulk ASINs" (lines 79-85): n ASINs were entered
BulkStart ==
    /\ tab.pc = "idle"
    /\ \E n \in 1..MaxBatch :
        tab' = [pc |-> "bulk", n |-> n, i |-> 0, all_products_data |-> <<>>,
                fetched |-> <<>>, shown |-> "none"]
    /\ op' = Op("bulk", BulkDays)
    /\ raised' = FALSE
    /\ UNCHANGED <<llm, catalog, today, self, minutely_history, arg, result>>

\* one turn of the loop over asins_list (lines 87-104); an exception leaves
\* the handler
BulkItem ==
    /\ tab.pc = "bulk"
    /\ tab.i < tab.n
    /\ \E resp \in Responses :
        \E r \in {Analyze(resp, BulkDays)} :
            /\ self' = r.self
            /\ raised' = r.raised
            /\ minutely_history' = r.minutely_history
            /\ tab' = IF r.raised
                      THEN [tab EXCEPT !.pc = "idle", !.shown = "exception"]
                      ELSE [tab EXCEPT
                              !.i = @ + 1,
                              !.fetched = Append(@, ~resp.raises),
                              !.all_products_data =
                                  IF r.found
                                  THEN Append(@, [avg_sales |-> r.self.avg_sales,
                                                  avg_price |-> r.self.avg_price])
                                  ELSE @]
    /\ op' = Op("bulk_item", BulkDays)
    /\ UNCHANGED <<llm, catalog, today, arg, result>>

\* after the loop (lines 106-127)
BulkDone ==
    /\ tab.pc = "bulk"
    /\ tab.i = tab.n
    /\ tab' = [tab EXCEPT !.pc = "idle",
                          !.shown = IF tab.all_products_data # <<>>
                                    THEN "Bulk Analysis Complete"
                                    ELSE "No data found"]
    /\ op' = Op("bulk_done", BulkDays)
    /\ UNCHANGED <<llm, catalog, today, self, raised, minutely_history, arg, result>>

NextTab == AnalyzeSingle \/ BulkStart \/ BulkItem \/ BulkDone

SpecTab == Init /\ [][NextTab]_vars

\* ======================================================================
\* Properties
\* ======================================================================
Ran == op.name = "get_last_days"
NoPriceHistory(d) == d = <<>> \/ "df_NEW" \notin d[1].keys \/ d[1]["df_NEW"] = <<>>
OtherSeries == {"couponHistory", "df_LIGHTNING_DEAL", "df_SALES", "monthlySoldHistory"}
WindowStart == (today - op.days) * MinPerDay

\* C1: after get_last_days on a record without price history (no record, the
\* empty record of a failed fetch, or no "df_NEW"), exists is false, no
\* exception escaped, none of the coupon, lightning-deal, sales-rank and
\* monthly-sold series was read, and no dense timeline or daily summary
\* was built.
C1_NoPriceShortCircuit ==
    (Ran /\ NoPriceHistory(self.data)) =>
        /\ ~self.exists
        /\ ~raised
        /\ self.reads \cap OtherSeries = {}
        /\ minutely_history = <<>>
        /\ self.pivot.none

C1_Witness ==
    /\ Ran
    /\ self.data # <<>>
    /\ "couponHistory" \in self.data[1].keys
    /\ "df_NEW" \notin self.data[1].keys
    /\ ~self.exists

\* C2: apply_sales_tiers(x) is table[x] for every key x of sales_tiers,
\* x * 1.3 for every other x, and 0 for x = -1 (results in tenths).
C2_TiersContract ==
    result # Unset =>
        /\ arg = -1 => result = 0
        /\ arg \in DOMAIN sales_tiers => result = 10 * sales_tiers[arg]
        /\ arg \notin DOMAIN sales_tiers => result = 13 * arg

C2_Witness == arg = 60 /\ result = 780

\* C3: in every row of the merged timeline and of the dense timeline with
\* LD = 0 and an available full price, final price is
\* (full price - $ off - SNS $) * (1 + % off/100) * (1 + SNS %/100);
\* 100 with -10 % and $5 off is 85.50, 50 with -10 % is 45.00.
FormulaHolds(row) ==
    (row["LD"] = 0 /\ row["full price"] \notin {NaN, -1}) =>
        row["final price"] =
            (row["full price"] - row["$ off"] - row["SNS $"])
            * (100 + row["% off"]) * (100 + row["SNS %"])

C3_FinalPriceFormula ==
    /\ FinalPrice(10000, -10, 500, 0, 0) = 8550 * PriceScale
    /\ FinalPrice(5000, -10, 0, 0, 0) = 4500 * PriceScale
    /\ \A i \in 1..Len(self.sales_history_monthly) :
          FormulaHolds(self.sales_history_monthly[i])
    /\ \A i \in 1..Len(minutely_history) : FormulaHolds(minutely_history[i])

\* $10.00 with -10 % and SNS $0.50 off: (10.00 - 0.50) * 0.9 = 8.55
C3_Witness ==
    /\ Ran
    /\ \E i \in 1..Len(minutely_history) :
          LET row == minutely_history[i]
          IN  /\ row["LD"] = 0 /\ row["full price"] = 1000
              /\ row["% off"] = -10 /\ row["SNS $"] = 50
              /\ row["final price"] = 855 * PriceScale

\* C4 as claimed: in every row of the dense timeline with a non-zero
\* lightning-deal price, final price is that price, whatever the coupon
\* columns and the full price hold.
C4_DealOverridesAlways ==
    Ran => \A i \in 1..Len(minutely_history) :
              LET row == minutely_history[i]
              IN  row["LD"] \notin {0, NaN} =>
                      row["final price"] = row["LD"] * PriceScale

\* C4 amended: in every row of the dense timeline with a non-zero
\* lightning-deal price and an available full price (not the -1 sentinel,
\* which the dense timeline holds as null), final price is the
\* lightning-deal price, whatever the coupon columns hold.
C4_DealOverridesWhenAvailable ==
    Ran => \A i \in 1..Len(minutely_history) :
              LET row == minutely_history[i]
              IN  (row["LD"] \notin {0, NaN} /\ row["full price"] # NaN) =>
                      row["final price"] = row["LD"] * PriceScale

C4_Witness ==
    /\ Ran
    /\ \E i \in 1..Len(minutely_history) :
          LET row == minutely_history[i]
          IN  /\ row["LD"] = 420 /\ row["full price"] = 1000
              /\ row["% off"] = -10 /\ row["SNS $"] = 50
              /\ row["final price"] = 420 * PriceScale

\* the cell the most recent observations at or before t give column c
Observed(t, c) ==
    LET shm == self.sales_history_monthly
        js  == {j \in 1..Len(shm) : shm[j]["t"] <= t}
        src == IF c = "sales min" THEN "monthlySoldMin"
               ELSE IF c = "sales max" THEN "monthlySoldMax" ELSE c
    IN  IF js = {} THEN NaN
        ELSE LET row == shm[Max(js)]
             IN  IF c \in {"full price", "final price"} /\ row["full price"] = -1
                 THEN NaN ELSE row[src]

\* C5: every row of the dense timeline holds, for each column, the most
\* recent observation at or before its timestamp, also when that
\* observation lies before the window start.
C5_ForwardFilled ==
    (Ran /\ self.exists) =>
        \A i \in 1..Len(minutely_history), c \in DailyCols :
            minutely_history[i][c] = Observed(minutely_history[i]["t"], c)

\* C6: the index of the dense timeline goes up one minute per row, from the
\* window-start date to the latest observed event.
C6_DenseIndex ==
    (Ran /\ self.exists) =>
        LET latest == Max(IndexSet(self.sales_history_monthly))
            n == Len(minutely_history)
        IN  /\ \A i \in 1..(n - 1) :
                  minutely_history[i + 1]["t"] = minutely_history[i]["t"] + 1
            /\ n > 0 => /\ minutely_history[1]["t"] = WindowStart
                        /\ minutely_history[n]["t"] = latest
            /\ n = 0 => latest < WindowStart

C6_Witness ==
    /\ Ran /\ self.exists
    /\ Len(minutely_history) = MinPerDay
    /\ self.sales_history_monthly[1]["t"] < WindowStart

\* what a run hands to its caller
Outputs(s) == <<s.exists, s.pivot, s.min_sales, s.max_sales, s.avg_sales, s.avg_price>>

\* C7: the outputs of a run are a function of the record and the window:
\* they are those of a fresh instance given the same record and window
\* (the date being the same).
C7_FunctionOfRecordAndWindow ==
    Ran => Outputs(self) =
           Outputs(get_last_days([KeepaProduct EXCEPT !.data = self.data],
                                 [raises |-> FALSE, products |-> catalog],
                                 op.days, today).self)

\* avg_sales * avg_price, in dollars, as num/den (den = 0: undefined);
\* avg_sales is kept in halves and avg_price in cents
ImpliedRevenue(avg_sales, avg_price) ==
    [num |-> avg_sales * avg_price.num, den |-> 2 * 100 * avg_price.den]

SameQuotient(p, q) ==
    IF p.den = 0 \/ q.den = 0 THEN p.den = q.den
    ELSE p.num * q.den = q.num * p.den

\* C8: after get_last_days on an existing item, min_sales and max_sales are
\* the sums of the daily 'sales min' and 'sales max' over the rows dated in
\* [today - days, today], avg_sales is their midpoint, avg_price is the mean
\* of the daily final price over the same rows, and the revenue is
\* avg_sales * avg_price (300 and 500 give 400; at 20.00 that is 8000.00).
C8_WindowSummary ==
    /\ SameQuotient(ImpliedRevenue(300 + 500, [num |-> 2000, den |-> 1]),
                    [num |-> 8000, den |-> 1])
    /\ (Ran /\ self.exists /\ ~raised) =>
        LET rows == SelectSeq(self.pivot.rows,
                              LAMBDA row : /\ row["date"] >= today - op.days
                                           /\ row["date"] <= today)
        IN  /\ self.min_sales = SumSeq(Present(rows, "sales min"))
            /\ self.max_sales = SumSeq(Present(rows, "sales max"))
            /\ self.avg_sales = self.min_sales + self.max_sales
            /\ SameQuotient(self.avg_price, MeanOf(rows, "final price"))

\* C9: after get_last_days on an item that does not exist, min_sales,
\* max_sales, avg_sales and avg_price are all undefined; none is a number.
C9_NoSummaryWithoutItem ==
    (Ran /\ ~self.exists) =>
        /\ self.min_sales = Unset
        /\ self.max_sales = Unset
        /\ self.avg_sales = Unset
        /\ self.avg_price.den = 0

\* C10: in the tab no exception leaves a handler whatever the provider
\* answers; an item whose fetch failed or whose record has no price history
\* ends with exists false; and a bulk run that has ended went through every
\* ASIN of the batch.
C10_FailuresStayLocal ==
    /\ ~raised
    /\ tab.shown # "exception"
    /\ (op.name \in {"single", "bulk_item"} /\ NoPriceHistory(self.data))
          => ~self.exists
    /\ (tab.pc = "idle" /\ tab.n > 0) => (tab.i = tab.n /\ Len(tab.fetched) = tab.n)

\* a batch whose first fetch raised and whose second item was then fetched
C10_Witness ==
    /\ tab.pc = "idle" /\ tab.n = 2
    /\ tab.fetched = <<FALSE, TRUE>>
    /\ self.data # <<>> /\ ~self.exists

\* the one-row frame that stands for an absent series, at timestamp t
NeutralRow(series, t) ==
    CASE series = "couponHistory" ->
             ("t" :> t) @@ ("% off" :> 0) @@ ("$ off" :> 0) @@
             ("SNS %" :> 0) @@ ("SNS $" :> 0)
      [] series = "df_LIGHTNING_DEAL" -> ("t" :> t) @@ ("LD" :> 0)
      [] series = "df_SALES" -> ("t" :> t) @@ ("BSR" :> NaN)
      [] series = "monthlySoldHistory" -> ("t" :> t) @@ ("monthlySoldMin" :> -1)

\* C11: after get_last_days on a record with a price history, exists is
\* true, no exception escaped, and the placeholders built are exactly one
\* neutral row per absent series among coupons, lightning deals, sales rank
\* and monthly sold, each at the last price timestamp (four zeros, 0, null,
\* -1); the merged timeline's row at that timestamp holds them (the unknown
\* monthly count stored as 0).
C11_PlaceholdersForAbsentSeries ==
    (Ran /\ ~NoPriceHistory(self.data)) =>
        LET p == self.data[1]
            last == p["df_NEW"][Len(p["df_NEW"])]["t"]
            absent == OtherSeries \ p.keys
            shm == self.sales_history_monthly
        IN  /\ self.exists
            /\ ~raised
            /\ self.placeholders = {<<x, NeutralRow(x, last)>> : x \in absent}
            /\ \E i \in 1..Len(shm) :
                  /\ shm[i]["t"] = last
                  /\ "couponHistory" \in absent =>
                        \A c \in CouponCols : shm[i][c] = 0
                  /\ "df_LIGHTNING_DEAL" \in absent => shm[i]["LD"] = 0
                  /\ "df_SALES" \in absent => shm[i]["BSR"] = NaN
                  /\ "monthlySoldHistory" \in absent => shm[i]["monthlySoldMin"] = 0

\* a record with a price history and a sales rank only
C11_Witness ==
    /\ Ran /\ self.exists
    /\ self.data[1].keys = {"title", "df_NEW", "df_SALES"}
    /\ Cardinality(self.placeholders) = 3

ConvertTimeOps == {"convert_time", "tab.convert_time", "app.convert_time"}

\* C12 as claimed: each convert_time gives "unknown" for 0 and, for every
\* other integer t, the instant (t + 21564000) * 60000 ms after 1970, that is
\* t + 21564000 minutes after 1970.
C12_ConvertTimeInstantEverywhere ==
    (op.name \in ConvertTimeOps /\ arg.type = "int") =>
        result = IF arg.v = 0 THEN Unknown ELSE Timestamp(arg.v + 21564000)

\* C12 amended: KeepaProduct.convert_time (both classes) gives "unknown" for
\* 0 and the instant t + 21564000 minutes after 1970 for every other
\* integer t; convert_time of app.py gives "unknown" for 0 and the calendar
\* date of that instant for every other integer t.
C12_ConvertTimeInstantOrDate ==
    (op.name \in ConvertTimeOps /\ arg.type = "int") =>
        result = IF arg.v = 0 THEN Unknown
                 ELSE IF op.name = "app.convert_time"
                 THEN Date((arg.v + 21564000) \div MinPerDay)
                 ELSE Timestamp(arg.v + 21564000)

C12_Witness ==
    /\ op.name = "convert_time"
    /\ arg = PyInt(7)
    /\ result = Timestamp(21564007)

\* C13: convert_time given a value that is no integer hands that value back
\* unchanged, and no exception leaves it.
C13_MalformedPassedThrough ==
    (op.name \in ConvertTimeOps /\ arg.type # "int") =>
        result = [kind |-> "raw", t |-> arg.v]

Decoded(code) == [pct |-> IF code < 0 THEN code ELSE 0,
                  off |-> IF code > 0 THEN code ELSE 0]

\* C14: for every coupon event (time, d, s) of couponHistory, the merged
\* timeline's row at that time has '% off' = d and '$ off' = 0 if d < 0,
\* '$ off' = d / 100 dollars and '% off' = 0 if d > 0, both 0 if d = 0, and
\* 'SNS %', 'SNS $' decoded from s the same way; and in every row
\* '% off' <= 0, '$ off' >= 0 and at most one of the two is not 0 (as for
\* the SNS pair), rows that precede every coupon value (null cells) aside.
C14_CouponDecoding ==
    (Ran /\ self.exists) =>
        LET coupons == self.data[1]["couponHistory"]
            shm == self.sales_history_monthly
        IN  /\ \A e \in 1..(Len(coupons) \div 3) :
                  \E i \in 1..Len(shm) :
                      /\ shm[i]["t"] = coupons[3 * e - 2] + 21564000
                      /\ shm[i]["% off"] = Decoded(coupons[3 * e - 1]).pct
                      /\ shm[i]["$ off"] = Decoded(coupons[3 * e - 1]).off
                      /\ shm[i]["SNS %"] = Decoded(coupons[3 * e]).pct
                      /\ shm[i]["SNS $"] = Decoded(coupons[3 * e]).off
            /\ \A i \in 1..Len(shm) :
                  (\A c \in CouponCols : shm[i][c] # NaN) =>
                      /\ shm[i]["% off"] <= 0 /\ shm[i]["$ off"] >= 0
                      /\ shm[i]["% off"] = 0 \/ shm[i]["$ off"] = 0
                      /\ shm[i]["SNS %"] <= 0 /\ shm[i]["SNS $"] >= 0
                      /\ shm[i]["SNS %"] = 0 \/ shm[i]["SNS $"] = 0

\* two coupon events: $0.50 off with SNS -20 %, then no coupon at all
C14_Witness ==
    /\ Ran /\ self.exists
    /\ Len(self.data[1]["couponHistory"]) = 6
    /\ \E i \in 1..Len(self.sales_history_monthly) :
          LET row == self.sales_history_monthly[i]
          IN  row["$ off"] = 50 /\ row["% off"] = 0 /\ row["SNS %"] = -20
    /\ \E e \in 1..2 : /\ self.data[1]["couponHistory"][3 * e - 1] = 0
                       /\ self.data[1]["couponHistory"][3 * e] = 0

\* the non-null cells of column c in the dense-timeline rows dated d
DayCells(d, c) ==
    Present(SelectSeq(minutely_history, LAMBDA row : DateOf(row["t"]) = d), c)

\* cell is what the daily summary shows for the aggregate of column c over
\* the cells vals: the min, the max, the sum cut to whole units or the mean
\* rounded to the cent, null when there is no cell or when that is 0
ShowsAggregate(cell, c, vals) ==
    LET S == {vals[k] : k \in 1..Len(vals)}
        total == SumSeq(vals)
        n == Len(vals)
        u == IF c = "final price" THEN PriceScale ELSE 1
    IN  IF c \in SumCols
        THEN IF total < UnitsOf(c) THEN cell = NaN
             ELSE /\ cell # NaN
                  /\ cell * UnitsOf(c) <= total
                  /\ total < (cell + 1) * UnitsOf(c)
        ELSE IF vals = <<>> THEN cell = NaN
        ELSE IF c \in MeanCols
        THEN IF 2 * total <= n * u /\ -2 * total <= n * u THEN cell = NaN
             ELSE /\ cell # NaN
                  /\ 2 * (cell * n * u - total) <= n * u
                  /\ 2 * (total - cell * n * u) <= n * u
        ELSE LET v == IF c \in MaxCols
                      THEN CHOOSE x \in S : \A y \in S : y <= x
                      ELSE CHOOSE x \in S : \A y \in S : x <= y
             IN  cell = IF v = 0 THEN NaN ELSE v

\* C15: the daily summary has one row per calendar date of the dense
\* timeline, in date order, and each of its cells is the aggregate of that
\* column over exactly the dense rows of that date: mean for full price and
\* final price, min for the four coupon columns and BSR, max for LD, sum for
\* sales min and sales max (as the summary shows it: prices to the cent,
\* sums in whole units, null for zero).
C15_DailyAggregation ==
    (Ran /\ self.exists /\ ~raised) =>
        LET rows == self.pivot.rows
            dates == {DateOf(minutely_history[i]["t"]) : i \in 1..Len(minutely_history)}
        IN  /\ {rows[i]["date"] : i \in 1..Len(rows)} = dates
            /\ Len(rows) = Cardinality(dates)
            /\ \A i \in 1..(Len(rows) - 1) : rows[i]["date"] < rows[i + 1]["date"]
            /\ \A i \in 1..Len(rows), c \in PivotCols :
                  ShowsAggregate(rows[i][c], c, DayCells(rows[i]["date"], c))

\* a day whose two minutes have final prices 10.00 and 4.20: mean 7.10
C15_Witness ==
    /\ Ran /\ self.exists
    /\ Len(self.pivot.rows) = 2
    /\ \E i \in 1..2 : /\ self.pivot.rows[i]["final price"] = 710
                       /\ self.pivot.rows[i]["LD"] = 420
                       /\ self.pivot.rows[i]["full price"] = 1000

\* C17: after generate_daily_sales no cell of the daily summary is zero.
C17_NoZeroInSummary ==
    (Ran /\ self.exists /\ ~raised) =>
        \A i \in 1..Len(self.pivot.rows), c \in PivotCols :
            self.pivot.rows[i][c] # 0

\* a date on which no coupon was on: the minimum of '% off' is 0 and the
\* summary shows null, next to a price
C17_Witness ==
    /\ Ran /\ self.exists
    /\ \E i \in 1..Len(self.pivot.rows) :
          LET row == self.pivot.rows[i]
              pcts == DayCells(row["date"], "% off")
          IN  /\ pcts # <<>>
              /\ \A k \in 1..Len(pcts) : pcts[k] = 0
              /\ row["% off"] = NaN
              /\ row["full price"] = 1000

\* C18: every row of the dense timeline whose column sum differs from that
\* of the row before or of the row after is kept in short_history.
C18_OnlyDuplicatesCollapsed ==
    (Ran /\ self.exists /\ ~raised) =>
        LET n == Len(minutely_history)
            sum(i) == RowSum(minutely_history[i], DailyCols)
            kept == {self.short_history[k]["t"] : k \in 1..Len(self.short_history)}
        IN  \A i \in 1..n :
                (\/ (i > 1 /\ sum(i) # sum(i - 1))
                 \/ (i < n /\ sum(i) # sum(i + 1)))
                    => minutely_history[i]["t"] \in kept

\* C19: no row of the dense timeline keeps the unavailable sentinel -1 as
\* full price; a row whose full price is null has a null final price; and
\* at every minute of the window at which the merged timeline has full
\* price -1, the dense row has a null full price and a null final price.
C19_UnavailableIsNull ==
    (Ran /\ self.exists /\ ~raised) =>
        LET shm == self.sales_history_monthly
        IN  /\ \A i \in 1..Len(minutely_history) :
                  /\ minutely_history[i]["full price"] # -1
                  /\ minutely_history[i]["full price"] = NaN
                        => minutely_history[i]["final price"] = NaN
            /\ \A j \in 1..Len(shm) :
                  (shm[j]["full price"] = -1 /\ shm[j]["t"] >= WindowStart) =>
                      \E i \in 1..Len(minutely_history) :
                          /\ minutely_history[i]["t"] = shm[j]["t"]
                          /\ minutely_history[i]["full price"] = NaN
                          /\ minutely_history[i]["final price"] = NaN

\* a day with the price at 10.00 on one minute and unavailable on the
\* other: its mean full price is 10.00
C19_Witness ==
    /\ Ran /\ self.exists
    /\ \E j \in 1..Len(self.sales_history_monthly) :
          /\ self.sales_history_monthly[j]["full price"] = -1
          /\ self.sales_history_monthly[j]["t"] >= WindowStart
    /\ \E i \in 1..Len(self.pivot.rows) :
          LET row == self.pivot.rows[i]
              cells == SelectSeq(minutely_history,
                                 LAMBDA r : DateOf(r["t"]) = row["date"])
          IN  /\ Len(cells) = 2
              /\ row["full price"] = 1000
              /\ \E k \in 1..2 : cells[k]["full price"] = NaN
                                 /\ cells[k]["LD"] # NaN

\* C20: get_last_days (which runs generate_daily_sales and every pull_*
\* method) and get_sales_history_by_date leave the record held in self.data
\* as it was; when no record was held yet, the one they fetch is held as the
\* provider gave it (or is the empty record after a failed request).
ReconstructionOps == {"get_last_days", "get_sales_history_by_date"}

C20_RecordOnlyRead ==
    [][(op' # op /\ op'.name \in ReconstructionOps) =>
          IF self.data # <<>> THEN self'.data = self.data
          ELSE self'.data \in {catalog, <<EmptyDict>>}]_vars

\* both operations have run on a record with a price table holding a null,
\* a coupon and a monthly-sold count, and the record is still the provider's
C20_Witness ==
    /\ op.name = "get_sales_history_by_date"
    /\ self.exists /\ self.pivot.rows # <<>>
    /\ result # <<>>
    /\ self.data = catalog
    /\ \E i \in 1..Len(self.data[1].df_NEW) : self.data[1].df_NEW[i]["value"] = NaN

\* C21: on an item that exists, get_sales_history_by_date returns one row
\* per monthly-sold event whose count is not -1, in event order, with
\* Date = convert_time(timestamp), Min Sales the count, Max Sales =
\* apply_sales_tiers(count) and Min Sales <= Avg Sales <= Max Sales (Max
\* Sales in tenths); the table is empty when the history is absent or holds
\* only -1 counts.
C21_HistoryByDate ==
    (op.name = "get_sales_history_by_date" /\ self.exists) =>
        LET monthly_sold == get(self.data[1], "monthlySoldHistory", <<>>)
            n == Len(monthly_sold) \div 2
            known == SortedSeq({i \in 1..n : monthly_sold[2 * i] # -1})
        IN  /\ Len(result) = Len(known)
            /\ \A j \in 1..Len(known) :
                  LET t == monthly_sold[2 * known[j] - 1]
                      units == monthly_sold[2 * known[j]]
                  IN  /\ DOMAIN result[j] = {"Date", "Min Sales", "Max Sales", "Avg Sales"}
                      /\ result[j]["Date"] = convert_time(t)
                      /\ result[j]["Min Sales"] = units
                      /\ result[j]["Max Sales"] = apply_sales_tiers(units)
                      /\ 10 * result[j]["Min Sales"] <= 10 * result[j]["Avg Sales"]
                      /\ 10 * result[j]["Avg Sales"] <= result[j]["Max Sales"]

\* a history of an unknown count and a count of 60: one row, 60 / 78 / 61
C21_Witness ==
    /\ op.name = "get_sales_history_by_date" /\ self.exists
    /\ Len(get(self.data[1], "monthlySoldHistory", <<>>)) = 4
    /\ Len(result) = 1
    /\ result[1]["Min Sales"] = 60 /\ result[1]["Max Sales"] = 780
    /\ result[1]["Avg Sales"] = 61

\* an item that exists, with only -1 counts: the table is empty
C21_WitnessEmpty ==
    /\ op.name = "get_sales_history_by_date" /\ self.exists
    /\ Len(get(self.data[1], "monthlySoldHistory", <<>>)) = 2
    /\ result = <<>>

\* C22: in the tab, when the record fetched for an ASIN has a non-empty
\* price history, the exists check after query() passes: the single flow
\* shows the analysis, the bulk flow appends the item to its results.
C22_PricedItemIsAnalysed ==
    (op.name \in {"single", "bulk_item"} /\ ~NoPriceHistory(self.data)) =>
        /\ self.exists
        /\ op.name = "single" => tab.shown = "analysis"
        /\ op.name = "bulk_item" => tab.all_products_data # <<>>

\* C23: after a pull_sales or get_last_days that completed, exists is true
\* exactly when the record the instance holds has a non-empty price history,
\* whatever queries and replacements of the record came before.
C23_ExistsTracksRecord ==
    (op.name \in {"tab.pull_sales", "tab.get_last_days"} /\ ~raised) =>
        (self.exists <=> ~NoPriceHistory(self.data))

\* C24: after get_last_days on an existing item, min_sales <= avg_sales <=
\* max_sales (avg_sales is held in halves), and in every row of the daily
\* summary where both are present, sales min <= sales max.
C24_SalesBoundsOrdered ==
    (Ran /\ self.exists /\ ~raised) =>
        /\ 2 * self.min_sales <= self.avg_sales
        /\ self.avg_sales <= 2 * self.max_sales
        /\ \A i \in 1..Len(self.pivot.rows) :
              LET row == self.pivot.rows[i]
              IN  (row["sales min"] # NaN /\ row["sales max"] # NaN)
                      => row["sales min"] <= row["sales max"]

\* an item with a monthly-sold count: the window's floor is positive and
\* below its ceiling, and a day shows both
C24_Witness ==
    /\ Ran /\ self.exists /\ ~raised
    /\ 0 < self.min_sales /\ self.min_sales < self.max_sales
    /\ \E i \in 1..Len(self.pivot.rows) :
          /\ self.pivot.rows[i]["sales min"] # NaN
          /\ self.pivot.rows[i]["sales max"] # NaN
          /\ self.pivot.rows[i]["sales min"] < self.pivot.rows[i]["sales max"]

\* C25: apply_sales_tiers is monotone on non-negative floors: the ceiling of
\* a floor x >= 0 is at most the ceiling of every floor y >= x.
C25_TiersMonotone ==
    (result # Unset /\ arg >= 0) =>
        \A y \in TierInputs : arg <= y => result <= apply_sales_tiers(y)

\* the monthly-sold floor of the record when it is one positive count
\* reported on the first minute, 0 otherwise
ConstantFloor ==
    LET monthly_sold == get(self.data[1], "monthlySoldHistory", <<>>)
    IN  IF Len(monthly_sold) = 2 /\ monthly_sold[1] = MinPerDay /\ monthly_sold[2] > 0
        THEN monthly_sold[2] ELSE 0

\* C26: when the floor is a constant m > 0 over DaysPerMonth days that the
\* dense timeline covers whole, the daily sales min of those days sum to m.
C26_SpreadLosesNoUnits ==
    (/\ Ran /\ self.exists /\ ~raised
     /\ op.days = DaysPerMonth
     /\ Len(minutely_history) = DaysPerMonth * MinPerDay
     /\ ConstantFloor > 0) =>
        /\ SumSeq(Present(self.pivot.rows, "sales min")) = ConstantFloor
        /\ self.min_sales = ConstantFloor

\* C27: given the same record and window, get_last_days of the two classes
\* ends in the same outcome: an error in both or in neither, the same exists
\* flag, daily summary, min_sales, max_sales, avg_sales and avg_price.
C27_ClassesEquivalent ==
    op.name = "both.get_last_days" =>
        /\ raised = result.raised
        /\ self.exists = result.self.exists
        /\ self.pivot = result.self.pivot
        /\ self.min_sales = result.self.min_sales
        /\ self.max_sales = result.self.max_sales
        /\ self.avg_sales = result.self.avg_sales
        /\ self.avg_price = result.self.avg_price

\* C28: when generate_monthly_summary returns on an instance whose record
\* has a non-empty price history, the monthly summary is defined.
C28_SummaryDefinedOnReturn ==
    (/\ op.name = "generate_monthly_summary"
     /\ ~raised
     /\ ~NoPriceHistory(self.data)) => ~result.none

\* what generate_response has done and returned so far, by case
Outcome ==
    /\ llm.model_calls <= 2 /\ llm.tool_runs <= 1
    /\ ~llm.raised
    /\ llm.pc = "done" =>
          /\ llm.returned \in Strings
          /\ ~llm.api_key => (llm.returned = KeyMissing /\ llm.model_calls = 0)
          /\ llm.first = "no candidates" => llm.returned = NoCandidates
          /\ llm.first = "no parts" => llm.returned = EmptyResponse
          /\ (llm.first = "function_call" /\ llm.second = "text") =>
                (/\ llm.returned = SecondText
                 /\ llm.function_name \notin KnownTools =>
                        (llm.tool_runs = 0 /\ llm.tool_result = "Error: Unknown tool"))
          /\ ("raises" \in {llm.first, llm.second, llm.tool_result}) =>
                llm.returned = UnexpectedError

C30_RowSalesOrdered ==
    op.name = "perform_keepa_analysis" =>
        /\ result.min <= result.avg
        /\ result.avg <= result.max

====
